---------------------------- MODULE Spec2Model ----------------------------
(***************************************************************************)
(* Model of src/mortgage_calculator.py (class MortgageCalculator).         *)
(*                                                                         *)
(* Python floats are modelled as exact rationals <<n, d>> (d > 0, lowest   *)
(* terms): every arithmetic expression of the source is translated         *)
(* operator by operator, in the source's evaluation order, into the        *)
(* rational operators below.  Binary rounding of doubles is not part of    *)
(* that model; round(x, 2) is modelled (Round2).  SpecDouble models the    *)
(* doubles themselves, on inputs where every result can be computed.       *)
(*                                                                         *)
(* Four specifications:                                                    *)
(*   Spec          the Streamlit page: one action per user event, each     *)
(*                 action being the whole script rerun the event causes;   *)
(*   SpecCalc      the calculation methods applied to drawn arguments;     *)
(*   SpecSchedule  the amortization-schedule loop, one iteration a step;   *)
(*   SpecDouble    the same loop in IEEE-754 double arithmetic.            *)
(***************************************************************************)
EXTENDS Integers, Sequences, FiniteSets, TLC

VARIABLES
    page,           \* self.page: the selectbox of the sidebar
    auto_check,     \* self.auto_check: the 'Always Check Results' toggle
    session_state,  \* st.session_state: [auto_check, check_results]
    clicked,        \* what st.button("Check Results") returned in the last rerun
    inputs,         \* widget values of the Upfront Costs page
    results,        \* what the last rerun displayed
    call,           \* SpecCalc: the method called and its arguments
    ret,            \* SpecCalc: what the call returned or raised
    loop            \* SpecSchedule, SpecDouble: locals of the schedule loop

vars == <<page, auto_check, session_state, clicked, inputs, results, call, ret, loop>>

uiVars == <<page, auto_check, session_state, clicked, inputs, results>>
calcVars == <<call, ret>>

-----------------------------------------------------------------------------
(* Exact rational arithmetic standing for Python float arithmetic.         *)

Abs(x) == IF x < 0 THEN -x ELSE x

\* The operators below are defined through functions so that their arguments
\* are evaluated once, before the operator is applied.

\* Euclid's algorithm, on naturals
gcd[a \in Nat, b \in Nat] == IF b = 0 THEN a ELSE gcd[b, a % b]

GCD(a, b) == gcd[a, b]

LCM(a, b) == (a \div GCD(a, b)) * b

norm[n \in Int, d \in Int] ==
    LET g == gcd[Abs(n), Abs(d)]
        s == IF d < 0 THEN -1 ELSE 1
    IN  <<s * (n \div g), s * (d \div g)>>

\* n/d in lowest terms with a positive denominator (d # 0)
Norm(n, d) == norm[n, d]

R(n) == <<n, 1>>

Num(x) == x[1]
Den(x) == x[2]

Rationals == Int \X Int

radd[x \in Rationals, y \in Rationals] ==
    LET l == LCM(Den(x), Den(y))
    IN  Norm(Num(x) * (l \div Den(x)) + Num(y) * (l \div Den(y)), l)

RAdd(x, y) == radd[x, y]

RNeg(x) == <<-Num(x), Den(x)>>

RSub(x, y) == RAdd(x, RNeg(y))

rmul[x \in Rationals, y \in Rationals] ==
    LET g1 == GCD(Abs(Num(x)), Den(y))
        g2 == GCD(Abs(Num(y)), Den(x))
    IN  Norm((Num(x) \div g1) * (Num(y) \div g2), (Den(x) \div g2) * (Den(y) \div g1))

RMul(x, y) == rmul[x, y]

rinv[y \in Rationals] == Norm(Den(y), Num(y))

\* y # 0
RDiv(x, y) == RMul(x, rinv[y])

RIsZero(x) == Num(x) = 0
RLt(x, y) == Num(RSub(x, y)) < 0
RLe(x, y) == Num(RSub(x, y)) <= 0
RAbs(x) == <<Abs(Num(x)), Den(x)>>

rmax[x \in Rationals, y \in Rationals] == IF RLt(x, y) THEN y ELSE x

RMax(x, y) == rmax[x, y]

\* x ** k for k >= 0, by squaring
rpow[x \in Rationals, k \in Nat] ==
    IF k = 0 THEN R(1)
    ELSE IF k % 2 = 0 THEN RMul(rpow[x, k \div 2], rpow[x, k \div 2])
    ELSE RMul(x, rpow[x, k - 1])

RPowNat(x, k) == rpow[x, k]

\* math.pow(x, k) for an integer k; x # 0 when k < 0
RPow(x, k) == IF k >= 0 THEN RPowNat(x, k) ELSE RDiv(R(1), RPowNat(x, -k))

\* math.pow(0.0, k) with k < 0 raises ValueError
PowRaises(x, k) == RIsZero(x) /\ k < 0

round2[x \in Rationals] ==
    LET a  == Abs(Num(x))
        d  == Den(x)
        q  == a \div d
        y  == (a % d) * 100
        c  == q * 100 + (y \div d)
        f  == y % d
        up == \/ f > d - f
              \/ f = d - f /\ c % 2 = 1
        m  == IF up THEN c + 1 ELSE c
    IN  IF Num(x) < 0 THEN -m ELSE m

\* round(x, 2), in cents: to the nearest cent, a tie to the even cent
Round2(x) == round2[x]

\* Python's None
None == <<0, 0>>


-----------------------------------------------------------------------------
(* Utility methods for calculations (lines 435-489).  A method that can    *)
(* raise returns a record: kind "value" with v, or kind "error" with exc.  *)

Value(x) == [kind |-> IF x = None THEN "none" ELSE "value", v |-> x, exc |-> ""]
Raise(e) == [kind |-> "error", v |-> None, exc |-> e]

calculate_monthly_payment(loan_amount, interest_rate, loan_tenure) ==
    LET monthly_rate == RDiv(RDiv(R(interest_rate), R(100)), R(12))
        num_payments == loan_tenure * 12
        base == RAdd(R(1), monthly_rate)
        pow == RPow(base, num_payments)
    IN  IF interest_rate = 0
        THEN IF num_payments = 0
             THEN Raise("ZeroDivisionError")
             ELSE Value(RDiv(R(loan_amount), R(num_payments)))
        ELSE IF PowRaises(base, num_payments)
        THEN Raise("ValueError")
        ELSE IF RIsZero(RSub(pow, R(1)))
        THEN Raise("ZeroDivisionError")
        ELSE Value(RDiv(RMul(R(loan_amount), RMul(monthly_rate, pow)),
                        RSub(pow, R(1))))

calculate_home_affordability(monthly_income, monthly_debts, interest_rate, loan_tenure) ==
    LET max_monthly_payment == RSub(RMul(R(monthly_income), Norm(30, 100)), R(monthly_debts))
        monthly_rate == RDiv(RDiv(R(interest_rate), R(100)), R(12))
        base == RAdd(R(1), monthly_rate)
        pow == RPow(base, loan_tenure * 12)
        divisor == RMul(monthly_rate, pow)
    IN  IF PowRaises(base, loan_tenure * 12)
        THEN Raise("ValueError")
        ELSE IF RIsZero(divisor)
        THEN Raise("ZeroDivisionError")
        ELSE Value(RDiv(RMul(max_monthly_payment, RSub(pow, R(1))), divisor))

calculate_down_payment(property_price, down_payment_percent) ==
    RDiv(RMul(R(property_price), R(down_payment_percent)), R(100))

calculate_loan_stamp_duty(loan_amount, stamp_duty_percent) ==
    RDiv(RMul(R(loan_amount), stamp_duty_percent), R(100))

\* mutant: the third tier measures the excess from 100000, the second tier's base
mot_stamp_duty_wrong_excess(property_price) ==
    IF property_price <= 100000
    THEN RMul(Norm(1, 100), R(property_price))
    ELSE IF property_price <= 500000
    THEN RAdd(R(1000), RMul(Norm(2, 100), R(property_price - 100000)))
    ELSE IF property_price <= 1000000
    THEN RAdd(R(9000), RMul(Norm(3, 100), R(property_price - 100000)))
    ELSE RAdd(R(24000), RMul(Norm(4, 100), R(property_price - 1000000)))

calculate_mot_stamp_duty(property_price) ==
    IF property_price <= 100000
    THEN RMul(Norm(1, 100), R(property_price))
    ELSE IF property_price <= 500000
    THEN RAdd(R(1000), RMul(Norm(2, 100), R(property_price - 100000)))
    ELSE IF property_price <= 1000000
    THEN RAdd(R(9000), RMul(Norm(3, 100), R(property_price - 500000)))
    ELSE RAdd(R(24000), RMul(Norm(4, 100), R(property_price - 1000000)))

\* mutant: the second tier leaves out the 6250 the first tier ends at
legal_fees_without_base(property_price) ==
    IF property_price <= 500000
    THEN RMax(RMul(R(property_price), Norm(125, 10000)), R(500))
    ELSE RMul(R(property_price - 500000), Norm(1, 100))

calculate_legal_fees(property_price) ==
    IF property_price <= 500000
    THEN RMax(RMul(R(property_price), Norm(125, 10000)), R(500))
    ELSE IF property_price > 500000
    THEN RAdd(R(6250), RMul(R(property_price - 500000), Norm(1, 100)))
    ELSE IF property_price > 7000000
    THEN R(76250)
    ELSE None

-----------------------------------------------------------------------------
(* SpecCalc: a calculation method applied to drawn arguments.  The fee     *)
(* methods are applied to two prices, so that claims relating two          *)
(* evaluations are about the state.                                        *)

MaxTenure == 1
MaxPrincipal == 100
MaxSchedulePrincipal == 4
MaxDebtGap == 100
MaxPriceSteps == 80
PriceStep == 100000
MinIncome == 3000

\* Rates (% a year) whose monthly rate, interest_rate / 100 / 12, is an integer
ValidRates == {0, 1200}
AnyRates == {-2400, -1200, 0, 1200}

Tenures == 1 .. MaxTenure
\* loan amounts of the schedule loop: the interest it adds up over the loop
\* has to stay within the model's integers
SchedulePrincipals == 1 .. MaxSchedulePrincipal

PaymentCalls ==
    { [fn |-> "calculate_monthly_payment", args |-> <<p, r, t>>] :
        p \in (-MaxPrincipal) .. MaxPrincipal, r \in AnyRates, t \in (-1) .. MaxTenure }

Incomes == { MinIncome + 100 * k : k \in 0 .. 2 }

AffordabilityCalls ==
    { [fn |-> "calculate_home_affordability", args |-> <<i, (i * 3) \div 10 + g, 1200, t>>] :
        i \in Incomes, g \in (-MaxDebtGap) .. MaxDebtGap, t \in Tenures }

\* the tier boundaries and the prices next to them, the price at which the
\* legal-fee floor of 500 stops binding, and a grid up to MaxPriceSteps steps
FeePrices ==
    { PriceStep * k : k \in 1 .. MaxPriceSteps }
        \cup { b + e : b \in {40000, 100000, 500000, 1000000, 7000000}, e \in {-1, 0, 1} }
        \cup { 1, 50000 }

FeeCalls ==
    { [fn |-> f, args |-> <<p1, p2>>] :
        f \in {"calculate_mot_stamp_duty", "calculate_legal_fees"},
        p1 \in FeePrices, p2 \in FeePrices }

CallMonthlyPayment ==
    /\ call.fn = "calculate_monthly_payment"
    /\ ret = <<>>
    /\ ret' = <<calculate_monthly_payment(call.args[1], call.args[2], call.args[3])>>
    /\ UNCHANGED <<call, uiVars, loop>>

CallHomeAffordability ==
    /\ call.fn = "calculate_home_affordability"
    /\ ret = <<>>
    /\ ret' = <<calculate_home_affordability(call.args[1], call.args[2],
                                             call.args[3], call.args[4])>>
    /\ UNCHANGED <<call, uiVars, loop>>

CallMotStampDuty ==
    /\ call.fn = "calculate_mot_stamp_duty"
    /\ ret = <<>>
    /\ ret' = <<Value(calculate_mot_stamp_duty(call.args[1])),
                Value(calculate_mot_stamp_duty(call.args[2]))>>
    /\ UNCHANGED <<call, uiVars, loop>>

CallLegalFees ==
    /\ call.fn = "calculate_legal_fees"
    /\ ret = <<>>
    /\ ret' = <<Value(calculate_legal_fees(call.args[1])),
                Value(calculate_legal_fees(call.args[2]))>>
    /\ UNCHANGED <<call, uiVars, loop>>

-----------------------------------------------------------------------------
(* SpecSchedule: the schedule loop of show_monthly_mortgage (lines         *)
(* 126-148), one iteration a step.  monthly_payment is the value line 102  *)
(* computed for the same loan_amount, interest_rate and loan_tenure.       *)
(*                                                                         *)
(* The double the code holds in remaining_balance differs from the exact   *)
(* value by a rounding error far below a cent whose sign the model leaves  *)
(* open: loop.error is its sign after the last iteration, and decides the  *)
(* test remaining_balance <= 0 when the exact value is 0.                  *)

LoopIdle ==
    [pc |-> "idle", loan_amount |-> 0, interest_rate |-> 0, loan_tenure |-> 0,
     monthly_payment |-> R(0), monthly_interest_rate |-> R(0), month |-> 0,
     remaining_balance |-> R(0), total_interest_paid |-> R(0), error |-> 0,
     schedule |-> <<>>]

\* lines 126-129: the locals before the first iteration
LoopStart(loan_amount, interest_rate, loan_tenure) ==
    [pc |-> "loop", loan_amount |-> loan_amount, interest_rate |-> interest_rate,
     loan_tenure |-> loan_tenure,
     monthly_payment |-> calculate_monthly_payment(loan_amount, interest_rate, loan_tenure).v,
     monthly_interest_rate |-> RDiv(RDiv(R(interest_rate), R(100)), R(12)),
     month |-> 0, remaining_balance |-> R(loan_amount), total_interest_paid |-> R(0),
     error |-> 0, schedule |-> <<>>]

\* mutant: range(1, loan_tenure * 12), one month short
LastMonthShort(loan_tenure) == loan_tenure * 12 - 1

\* line 131: range(1, loan_tenure * 12 + 1) ends with this month
LastMonth(loan_tenure) == loan_tenure * 12

\* line 147: remaining_balance <= 0, on the double
BalanceSpent(remaining_balance, error) ==
    \/ RLt(remaining_balance, R(0))
    \/ RIsZero(remaining_balance) /\ error <= 0

\* lines 131-148: one iteration of the loop body
LoopBody ==
    /\ loop.pc = "loop"
    /\ loop.month < LastMonth(loop.loan_tenure)
    /\ \E e \in {-1, 0, 1},
          interest_payment \in {RMul(loop.remaining_balance, loop.monthly_interest_rate)} :
       \E principal_payment \in {RSub(loop.monthly_payment, interest_payment)} :
       \E remaining_balance \in {RSub(loop.remaining_balance, principal_payment)} :
        LET month == loop.month + 1
            row == [Month |-> month,
                    Principal_Payment |-> Round2(principal_payment),
                    Interest_Payment |-> Round2(interest_payment),
                    Total_Payment |-> Round2(loop.monthly_payment),
                    Remaining_Balance |-> Round2(remaining_balance)]
        IN  loop' = [loop EXCEPT
                        !.month = month,
                        !.remaining_balance = remaining_balance,
                        !.total_interest_paid = RAdd(@, interest_payment),
                        !.error = e,
                        !.schedule = Append(@, row),
                        !.pc = IF BalanceSpent(remaining_balance, e) THEN "done" ELSE "loop"]
    /\ UNCHANGED <<uiVars, calcVars>>

\* line 131: range(1, loan_tenure * 12 + 1) is exhausted
LoopExhausted ==
    /\ loop.pc = "loop"
    /\ loop.month >= LastMonth(loop.loan_tenure)
    /\ loop' = [loop EXCEPT !.pc = "done"]
    /\ UNCHANGED <<uiVars, calcVars>>

-----------------------------------------------------------------------------
(* Spec: the Streamlit page.  Every user event reruns the script, which    *)
(* constructs MortgageCalculator() anew: __init__ (setdefault on a session *)
(* that already holds both keys changes nothing) and render().  Each       *)
(* action below is one event followed by that whole rerun.                 *)
(*                                                                         *)
(* The Upfront Costs page is modelled with its widgets and everything it   *)
(* computes.  The other two pages are modelled by their results gate only: *)
(* their widgets admit no loan tenure below 5 years, and the annuity       *)
(* factor of 60 payments and more is what SpecCalc and SpecSchedule cover  *)
(* for shorter tenures.                                                    *)

Monthly == "Monthly Mortgage Estimation"
Affordability == "Home Affordability Estimation"
Upfront == "Upfront Costs Estimation"
CALCULATORS == <<Monthly, Affordability, Upfront>>

MaxDiscount == 100
MinLoanAmount == 90000

FeeKinds == {"loan_stamp_duty", "mot_stamp_duty", "loan_legal_fees", "spa_legal_fees"}

\* value=int(property_price * 0.9), the default of the Loan Amount input
DefaultLoanAmount(property_price) == (property_price * 9) \div 10

\* the widgets of show_upfront_costs as a first render creates them
DefaultInputs ==
    [property_price |-> 300000,
     loan_amount |-> DefaultLoanAmount(300000),
     discount_percent |-> 0,
     has_waived_fees |-> FALSE,
     checkbox |-> [k \in FeeKinds |-> FALSE]]

\* Property prices the model enters: every one has a default loan amount of
\* at least MinLoanAmount, and they cover the tiers of both fee schedules
UiPrices == { PriceStep * k : k \in {1, 3, 6, 11, 71} }
UiLoans == { MinLoanAmount, MinLoanAmount + PriceStep }
Discounts == 0 .. MaxDiscount

\* mutant: render does not reset check_results
KeepCheckResults(ss) == ss

\* line 23
ResetCheckResults(ss) == [ss EXCEPT !.check_results = FALSE]

\* lines 56-58; button is what st.button returns in this rerun
check_button(ss, button) ==
    IF button THEN [ss EXCEPT !.check_results = TRUE] ELSE ss

\* lines 41-54, the session state render_sidebar leaves
render_sidebar(ss, toggle, button) ==
    IF ~toggle THEN check_button(ss, button) ELSE ss

\* lines 101, 239, 340: if self.auto_check or st.session_state.check_results
ResultsGate(toggle, ss) == toggle \/ ss.check_results

\* mutant: the SPA entry reads the checkbox of the loan-agreement legal fees
WaivedFeesSpaFromLoan(inp) ==
    [k \in FeeKinds |->
        IF inp.has_waived_fees
        THEN inp.checkbox[IF k = "spa_legal_fees" THEN "loan_legal_fees" ELSE k]
        ELSE FALSE]

\* lines 316-337
WaivedFees(inp) ==
    [k \in FeeKinds |-> IF inp.has_waived_fees THEN inp.checkbox[k] ELSE FALSE]

\* lines 299-304: value=int(10 - discount_percent) of the disabled input
DownPaymentPercent(discount_percent) == 10 - discount_percent

\* lines 305-312: the disabled input holds its value, 0.5
StampDutyPercent == Norm(5, 10)

\* mutant: any discount above 10 labels the total a rebate
TotalLabelByDiscount(discount_percent, down_payment, total_fees) ==
    IF discount_percent > 10 THEN "Total Rebates" ELSE "Total Upfront Costs"

\* lines 369, 383-386
TotalLabel(discount_percent, down_payment, total_fees) ==
    IF discount_percent > 10 /\ RLt(total_fees, RAbs(down_payment))
    THEN "Total Rebates"
    ELSE "Total Upfront Costs"

\* lines 383-388
DownPaymentLabel(discount_percent) ==
    IF discount_percent > 10 THEN "Rebates" ELSE "Down Payment"

\* lines 341-399: what show_upfront_costs computes and hands to display_results
show_upfront_costs(inp) ==
    LET waived_fees == WaivedFees(inp)
        down_payment ==
            calculate_down_payment(inp.property_price,
                                   DownPaymentPercent(inp.discount_percent))
        loan_stamp_duty ==
            IF waived_fees["loan_stamp_duty"] THEN R(0)
            ELSE calculate_loan_stamp_duty(inp.loan_amount, StampDutyPercent)
        mot_stamp_duty ==
            IF waived_fees["mot_stamp_duty"] THEN R(0)
            ELSE calculate_mot_stamp_duty(inp.property_price)
        loan_legal_fees ==
            IF waived_fees["loan_legal_fees"] THEN R(0)
            ELSE calculate_legal_fees(inp.property_price)
        spa_legal_fees ==
            IF waived_fees["spa_legal_fees"] THEN R(0)
            ELSE calculate_legal_fees(inp.property_price)
        total_fees ==
            RAdd(RAdd(RAdd(loan_stamp_duty, mot_stamp_duty), loan_legal_fees),
                 spa_legal_fees)
        total_upfront_costs == RAdd(down_payment, total_fees)
    IN  [down_payment |-> down_payment,
         loan_stamp_duty |-> loan_stamp_duty,
         mot_stamp_duty |-> mot_stamp_duty,
         loan_legal_fees |-> loan_legal_fees,
         spa_legal_fees |-> spa_legal_fees,
         total_fees |-> total_fees,
         total_upfront_costs |-> total_upfront_costs,
         down_payment_label |-> DownPaymentLabel(inp.discount_percent),
         total_label |-> TotalLabel(inp.discount_percent, down_payment, total_fees),
         down_payment_shown |-> Round2(RAbs(down_payment)),
         total_shown |-> Round2(RAbs(total_upfront_costs))]

NoResults == [shown |-> FALSE, page |-> "", costs |-> <<>>]

\* lines 34-39 and the gated block of the page shown
ShowResults(pg, inp) ==
    [shown |-> TRUE, page |-> pg,
     costs |-> IF pg = Upfront THEN <<show_upfront_costs(inp)>> ELSE <<>>]

\* One rerun of the script (lines 16-39), given the widget values the event
\* left: the page selected, the toggle, whether the button was pressed, and
\* the inputs of the Upfront Costs page.  Widgets a rerun does not render
\* are dropped, so another page's inputs start from their defaults again.
Rerun(pg, toggle, button, inp) ==
    LET ss == render_sidebar(ResetCheckResults(session_state), toggle, button)
    IN  /\ session_state' = ss
        /\ page' = pg
        /\ auto_check' = toggle
        /\ clicked' = (~toggle /\ button)
        /\ inputs' = IF pg = Upfront THEN inp ELSE DefaultInputs
        /\ results' = IF ResultsGate(toggle, ss) THEN ShowResults(pg, inp) ELSE NoResults
        /\ UNCHANGED <<calcVars, loop>>

SelectPage ==
    \E pg \in {Monthly, Affordability, Upfront} \ {page} :
        Rerun(pg, auto_check, FALSE, DefaultInputs)

ToggleAutoCheck == Rerun(page, ~auto_check, FALSE, inputs)

\* the button is on the page only when the last rerun rendered it (line 53)
PressCheckResults ==
    /\ ~auto_check
    /\ Rerun(page, auto_check, TRUE, inputs)

\* an input of the Monthly Mortgage or Home Affordability page is edited
EditInput ==
    /\ page # Upfront
    /\ Rerun(page, auto_check, FALSE, inputs)

\* a new price gives the Loan Amount input a new default (lines 284-290)
EditPropertyPrice ==
    /\ page = Upfront
    /\ \E p \in UiPrices \cup {DefaultInputs.property_price} :
        /\ p # inputs.property_price
        /\ Rerun(page, auto_check, FALSE,
                 [inputs EXCEPT !.property_price = p,
                                !.loan_amount = DefaultLoanAmount(p)])

EditLoanAmount ==
    /\ page = Upfront
    /\ \E l \in UiLoans \ {inputs.loan_amount} :
        Rerun(page, auto_check, FALSE, [inputs EXCEPT !.loan_amount = l])

\* the Discount input is stepped up or down (step=1) within 0 .. max_value
EditDiscount ==
    /\ page = Upfront
    /\ \E d \in {inputs.discount_percent - 1, inputs.discount_percent + 1} \cap Discounts :
        Rerun(page, auto_check, FALSE, [inputs EXCEPT !.discount_percent = d])

\* the 'Any waived fees?' toggle; the four checkboxes exist only while it is on
ToggleHasWaivedFees ==
    /\ page = Upfront
    /\ Rerun(page, auto_check, FALSE,
             [inputs EXCEPT !.has_waived_fees = ~@,
                            !.checkbox = [k \in FeeKinds |-> FALSE]])

ToggleWaiver ==
    /\ page = Upfront
    /\ inputs.has_waived_fees
    /\ \E k \in FeeKinds :
        Rerun(page, auto_check, FALSE, [inputs EXCEPT !.checkbox[k] = ~@])

-----------------------------------------------------------------------------
(* SpecDouble: calculate_monthly_payment and the schedule loop in the      *)
(* arithmetic the code runs in, IEEE-754 doubles rounded to nearest.  A    *)
(* double is <<m, e>>, standing for m * 2^e with m odd (or <<0, 0>>).  An  *)
(* operator is defined where the double it returns can be computed in the  *)
(* model's integers: where the exact result is itself a double, and where  *)
(* one operand of a sum is too small to move the other.  It has no value   *)
(* elsewhere; the inputs of SpecDouble (a monthly rate of 1 or 3, so that  *)
(* the annuity factor is a power of two, and a tenure the page offers)     *)
(* keep every operation where it is defined.                               *)

\* number of bits of n
bits[n \in Nat] == IF n = 0 THEN 0 ELSE 1 + bits[n \div 2]

Pow2[k \in Nat] == IF k = 0 THEN 1 ELSE 2 * Pow2[k - 1]

dbl[m \in Int, e \in Int] ==
    IF m = 0 THEN <<0, 0>>
    ELSE IF m % 2 = 0 THEN dbl[m \div 2, e + 1]
    ELSE <<m, e>>

\* the double of a Python int
D(n) == dbl[n, 0]

Mant(x) == x[1]
Exp(x) == x[2]

\* the position of the leading bit of x # 0: 2^Top(x) <= |x| < 2^(Top(x) + 1)
Top(x) == Exp(x) + bits[Abs(Mant(x))] - 1

Doubles == Int \X Int

\* x * y: the exact product, a double as its mantissa has fewer than 53 bits
dmul[x \in Doubles, y \in Doubles] == dbl[Mant(x) * Mant(y), Exp(x) + Exp(y)]

DMul(x, y) == dmul[x, y]

\* x / y (y # 0) where the quotient is exact
ddiv[x \in Doubles, y \in Doubles] ==
    CASE Mant(x) % Mant(y) = 0 -> dbl[Mant(x) \div Mant(y), Exp(x) - Exp(y)]

DDiv(x, y) == ddiv[x, y]

\* x + y.  When both fit in 30 bits from the lower exponent up the sum is
\* exact and a double.  When |y| < 2^(Top(x) - 54) the exact sum is nearer
\* to x than to any other double (they are 2^(Top(x) - 53) or more away
\* from x), so x is the double returned.
dadd[x \in Doubles, y \in Doubles] ==
    LET lo == IF Exp(x) < Exp(y) THEN Exp(x) ELSE Exp(y)
    IN  CASE Mant(x) = 0 -> y
          [] Mant(x) # 0 /\ Mant(y) = 0 -> x
          [] Mant(x) # 0 /\ Mant(y) # 0 /\ Top(x) - lo < 29 /\ Top(y) - lo < 29 ->
                dbl[Mant(x) * Pow2[Exp(x) - lo] + Mant(y) * Pow2[Exp(y) - lo], lo]
          [] Mant(x) # 0 /\ Mant(y) # 0 /\ Top(x) - lo >= 29 /\ Top(y) + 1 <= Top(x) - 54 -> x
          [] Mant(x) # 0 /\ Mant(y) # 0 /\ Top(y) - lo >= 29 /\ Top(x) + 1 <= Top(y) - 54 -> y

DAdd(x, y) == dadd[x, y]

DNeg(x) == <<-Mant(x), Exp(x)>>

DSub(x, y) == DAdd(x, DNeg(y))

DLe(x, y) == Mant(DSub(x, y)) <= 0

\* math.pow(x, k) for x a power of two and k >= 0: exact
dpow[x \in Doubles, k \in Nat] == CASE Mant(x) = 1 -> <<1, Exp(x) * k>>

DPow(x, k) == dpow[x, k]

\* round(x, 2) of a double that holds an integer is that double
dround2[x \in Doubles] == CASE Exp(x) >= 0 -> x

DRound2(x) == dround2[x]

MinTenure == 5
MaxUiTenure == 6

UiTenures == MinTenure .. MaxUiTenure

\* interest rates (% a year) that make the monthly rate 1.0 or 3.0
DoubleRates == {1200, 3600}

\* lines 436-447, on doubles
calculate_monthly_payment_double(loan_amount, interest_rate, loan_tenure) ==
    LET monthly_rate == DDiv(DDiv(D(interest_rate), D(100)), D(12))
        num_payments == loan_tenure * 12
        pow == DPow(DAdd(D(1), monthly_rate), num_payments)
    IN  IF interest_rate = 0
        THEN DDiv(D(loan_amount), D(num_payments))
        ELSE DDiv(DMul(D(loan_amount), DMul(monthly_rate, pow)), DSub(pow, D(1)))

\* lines 102 and 126-129, on doubles
DoubleLoopStart(loan_amount, interest_rate, loan_tenure) ==
    [pc |-> "loop", loan_amount |-> loan_amount, interest_rate |-> interest_rate,
     loan_tenure |-> loan_tenure,
     monthly_payment |->
         calculate_monthly_payment_double(loan_amount, interest_rate, loan_tenure),
     monthly_interest_rate |-> DDiv(DDiv(D(interest_rate), D(100)), D(12)),
     month |-> 0, remaining_balance |-> D(loan_amount), total_interest_paid |-> D(0),
     error |-> 0, schedule |-> <<>>]

\* lines 131-148, on doubles: one iteration of the loop body
DoubleLoopBody ==
    /\ loop.pc = "loop"
    /\ loop.month < LastMonth(loop.loan_tenure)
    /\ \E interest_payment \in {DMul(loop.remaining_balance, loop.monthly_interest_rate)} :
       \E principal_payment \in {DSub(loop.monthly_payment, interest_payment)} :
       \E remaining_balance \in {DSub(loop.remaining_balance, principal_payment)} :
        LET month == loop.month + 1
            row == [Month |-> month,
                    Principal_Payment |-> DRound2(principal_payment),
                    Interest_Payment |-> DRound2(interest_payment),
                    Total_Payment |-> DRound2(loop.monthly_payment),
                    Remaining_Balance |-> DRound2(remaining_balance)]
        IN  loop' = [loop EXCEPT
                        !.month = month,
                        !.remaining_balance = remaining_balance,
                        !.total_interest_paid = DAdd(@, interest_payment),
                        !.schedule = Append(@, row),
                        !.pc = IF DLe(remaining_balance, D(0)) THEN "done" ELSE "loop"]
    /\ UNCHANGED <<uiVars, calcVars>>

-----------------------------------------------------------------------------
(* The four specifications.                                               *)

UiIdle ==
    /\ page = Monthly
    /\ auto_check = TRUE
    /\ session_state = [auto_check |-> TRUE, check_results |-> FALSE]
    /\ clicked = FALSE
    /\ inputs = DefaultInputs
    /\ results = NoResults

\* the state the first run of the script leaves (lines 16-19, 504-506)
Init ==
    /\ page = CALCULATORS[1]
    /\ auto_check = TRUE
    /\ session_state = [auto_check |-> TRUE, check_results |-> FALSE]
    /\ clicked = FALSE
    /\ inputs = DefaultInputs
    /\ results = ShowResults(CALCULATORS[1], DefaultInputs)
    /\ call = [fn |-> "", args |-> <<>>]
    /\ ret = <<>>
    /\ loop = LoopIdle

Next ==
    \/ SelectPage
    \/ ToggleAutoCheck
    \/ PressCheckResults
    \/ EditInput
    \/ EditPropertyPrice
    \/ EditLoanAmount
    \/ EditDiscount
    \/ ToggleHasWaivedFees
    \/ ToggleWaiver

Spec == Init /\ [][Next]_vars

InitCalc ==
    /\ UiIdle
    /\ loop = LoopIdle
    /\ call \in PaymentCalls \cup AffordabilityCalls \cup FeeCalls
    /\ ret = <<>>

NextCalc ==
    \/ CallMonthlyPayment
    \/ CallHomeAffordability
    \/ CallMotStampDuty
    \/ CallLegalFees

SpecCalc == InitCalc /\ [][NextCalc]_vars

InitSchedule ==
    /\ UiIdle
    /\ call = [fn |-> "", args |-> <<>>]
    /\ ret = <<>>
    /\ \E l \in SchedulePrincipals, r \in ValidRates, t \in Tenures :
        loop = LoopStart(l, r, t)

NextSchedule ==
    \/ LoopBody
    \/ LoopExhausted

\* the loop is sequential code: it takes its next step whenever it has one
SpecSchedule == InitSchedule /\ [][NextSchedule]_vars /\ WF_vars(NextSchedule)

\* the Monthly Mortgage page computing its schedule for inputs it admits
InitDouble ==
    /\ UiIdle
    /\ call = [fn |-> "", args |-> <<>>]
    /\ ret = <<>>
    /\ \E l \in UiLoans, r \in DoubleRates, t \in UiTenures : loop = DoubleLoopStart(l, r, t)

NextDouble ==
    \/ DoubleLoopBody
    \/ LoopExhausted

SpecDouble == InitDouble /\ [][NextDouble]_vars

-----------------------------------------------------------------------------
(* Claims about the calculation methods (SpecCalc).                        *)

Returned(fn) == call.fn = fn /\ ret # <<>>

\* an amount of whole cents, as a rational number of dollars
Cents(c) == Norm(c, 100)

\* C1: for every property price p > 0, calculate_mot_stamp_duty(p) is 1% of p
\* up to 100,000; 1,000 + 2% of (p - 100,000) up to 500,000; 9,000 + 3% of
\* (p - 500,000) up to 1,000,000; 24,000 + 4% of (p - 1,000,000) above that;
\* so 300,000 gives 5,000.
C1_MotStampDutySchedule ==
    Returned("calculate_mot_stamp_duty") =>
        LET p == call.args[1]
            duty == ret[1]
        IN  /\ duty.kind = "value"
            /\ p <= 100000 => duty.v = Cents(p)
            /\ (100000 < p /\ p <= 500000) => duty.v = Cents(100000 + 2 * (p - 100000))
            /\ (500000 < p /\ p <= 1000000) => duty.v = Cents(900000 + 3 * (p - 500000))
            /\ p > 1000000 => duty.v = Cents(2400000 + 4 * (p - 1000000))
            /\ p = 300000 => duty.v = R(5000)

C1_Witness ==
    /\ Returned("calculate_mot_stamp_duty")
    /\ call.args[1] = 300000
    /\ ret[1].v = R(5000)

\* C2: for every property price p > 0, calculate_legal_fees(p) is
\* max(1.25% of p, 500) up to 500,000; 6,250 + 1% of (p - 500,000) up to
\* 7,000,000; and the flat amount 76,250 above 7,000,000.
C2_LegalFeeSchedule ==
    Returned("calculate_legal_fees") =>
        LET p == call.args[1]
            fee == ret[1]
        IN  /\ fee.kind = "value"
            /\ p <= 500000 => fee.v = RMax(Norm(125 * p, 10000), R(500))
            /\ (500000 < p /\ p <= 7000000) => fee.v = Cents(625000 + (p - 500000))
            /\ p > 7000000 => fee.v = R(76250)

\* C3: calculate_home_affordability never returns a negative amount; when
\* monthly income x 0.30 - monthly debts <= 0 (rate > 0, tenure >= 1) the
\* affordable loan it returns is exactly 0.
C3_AffordabilityClamped ==
    Returned("calculate_home_affordability") =>
        LET monthly_income == call.args[1]
            monthly_debts == call.args[2]
            max_loan == ret[1]
        IN  /\ max_loan.kind = "value"
            /\ ~RLt(max_loan.v, R(0))
            /\ monthly_income * 3 - monthly_debts * 10 <= 0 => max_loan.v = R(0)

\* C6: calculate_monthly_payment fails, returning no number, whenever
\* principal <= 0, term <= 0 or rate < 0, and returns a number for
\* principal > 0, term >= 1 and rate >= 0.
C6_PaymentRejectsInvalidInput ==
    Returned("calculate_monthly_payment") =>
        LET principal == call.args[1]
            annualRatePercent == call.args[2]
            termYears == call.args[3]
            invalid == principal <= 0 \/ termYears <= 0 \/ annualRatePercent < 0
        IN  /\ invalid => ret[1].kind = "error"
            /\ ~invalid => ret[1].kind = "value"

\* C9: both tiered fee methods are non-decreasing in the property price, and
\* continuous at every tier boundary b (100,000, 500,000 and 1,000,000 for the
\* transfer duty; 500,000 for the legal fees): one dollar across b the fee
\* rises by exactly the upper tier's marginal rate, so the lower tier's formula
\* and the upper tier's give the same fee at b.
C9_FeesMonotoneContinuous ==
    (Returned("calculate_mot_stamp_duty") \/ Returned("calculate_legal_fees")) =>
        LET p1 == call.args[1]
            p2 == call.args[2]
            rise == RSub(ret[2].v, ret[1].v)
            across(b) == p1 = b /\ p2 = b + 1
        IN  /\ ret[1].kind = "value" /\ ret[2].kind = "value"
            /\ p1 <= p2 => RLe(ret[1].v, ret[2].v)
            /\ call.fn = "calculate_mot_stamp_duty" =>
                /\ across(100000) => rise = Norm(2, 100)
                /\ across(500000) => rise = Norm(3, 100)
                /\ across(1000000) => rise = Norm(4, 100)
            /\ call.fn = "calculate_legal_fees" =>
                /\ across(500000) => rise = Norm(1, 100)

C9_Witness ==
    /\ Returned("calculate_legal_fees")
    /\ call.args = <<500000, 500001>>
    /\ ret[1].v = R(6250)
    /\ RLt(ret[1].v, ret[2].v)

-----------------------------------------------------------------------------
(* Claims about the schedule loop (SpecSchedule).                          *)

Rows == Len(loop.schedule)

\* the rows are numbered 1, 2, ..., k with k <= T x 12; once the loop has
\* ended k >= 1, and k = T x 12 unless the last row left remaining_balance <= 0
C7_RowsConsecutive ==
    /\ \A i \in 1 .. Rows : loop.schedule[i].Month = i
    /\ Rows <= loop.loan_tenure * 12
    /\ loop.pc = "done" =>
        /\ Rows >= 1
        /\ BalanceSpent(loop.remaining_balance, loop.error) \/ Rows = loop.loan_tenure * 12

\* a step appends at most one row, and none after a row that left
\* remaining_balance <= 0, and none once the loop has ended
C7_NoRowAfterSpent ==
    /\ loop'.schedule = loop.schedule
        \/ /\ Len(loop'.schedule) = Rows + 1
           /\ SubSeq(loop'.schedule, 1, Rows) = loop.schedule
           /\ ~(Rows > 0 /\ BalanceSpent(loop.remaining_balance, loop.error))
    /\ loop.pc = "done" => loop' = loop

-----------------------------------------------------------------------------
(* Claim about the schedule in double arithmetic (SpecDouble).             *)

\* |x| <= 0.01, for a double x
WithinCent(x) ==
    IF Exp(x) >= 0 THEN Mant(x) = 0 ELSE 100 * Abs(Mant(x)) <= Pow2[-Exp(x)]

\* C8: for every principal > 0, rate >= 0 and term >= 1, the remaining
\* balance in the last row of the schedule is within 1 cent of 0, and the
\* monthly payment x term x 12 is at least the principal.
C8_FullyAmortized ==
    loop.pc = "done" =>
        /\ Rows >= 1
        /\ WithinCent(loop.schedule[Rows].Remaining_Balance)
        /\ DLe(D(loop.loan_amount), DMul(loop.monthly_payment, D(loop.loan_tenure * 12)))

-----------------------------------------------------------------------------
(* Claims about the page (Spec).                                           *)

UpfrontShown == results.shown /\ results.page = Upfront

\* the waiver flag of a fee: its checkbox, which exists while the toggle is on
Waived(k) == inputs.has_waived_fees /\ inputs.checkbox[k]

\* each waived fee is 0, each fee not waived is what its method returns, and
\* the total is the down payment plus the four fees
C4_FeesAsWaived ==
    UpfrontShown =>
        LET c == results.costs[1]
            legal == calculate_legal_fees(inputs.property_price)
        IN  /\ c.loan_stamp_duty =
                   IF Waived("loan_stamp_duty") THEN R(0)
                   ELSE calculate_loan_stamp_duty(inputs.loan_amount, Norm(5, 10))
            /\ c.mot_stamp_duty =
                   IF Waived("mot_stamp_duty") THEN R(0)
                   ELSE calculate_mot_stamp_duty(inputs.property_price)
            /\ c.loan_legal_fees = IF Waived("loan_legal_fees") THEN R(0) ELSE legal
            /\ c.spa_legal_fees = IF Waived("spa_legal_fees") THEN R(0) ELSE legal
            /\ c.down_payment =
                   calculate_down_payment(inputs.property_price, 10 - inputs.discount_percent)
            /\ c.total_upfront_costs =
                   RAdd(c.down_payment,
                        RAdd(c.loan_stamp_duty,
                             RAdd(c.mot_stamp_duty,
                                  RAdd(c.loan_legal_fees, c.spa_legal_fees))))

FeeOf(c, k) ==
    CASE k = "loan_stamp_duty" -> c.loan_stamp_duty
      [] k = "mot_stamp_duty" -> c.mot_stamp_duty
      [] k = "loan_legal_fees" -> c.loan_legal_fees
      [] k = "spa_legal_fees" -> c.spa_legal_fees

\* what the page shows against what it computes from the same inputs with the
\* checkbox of fee k flipped
C4_OtherFeesUnchanged ==
    (UpfrontShown /\ inputs.has_waived_fees) =>
        \A k \in FeeKinds :
            LET flipped == show_upfront_costs([inputs EXCEPT !.checkbox[k] = ~@])
            IN  /\ flipped.down_payment = results.costs[1].down_payment
                /\ \A j \in FeeKinds \ {k} :
                       FeeOf(flipped, j) = FeeOf(results.costs[1], j)

\* C4: in the upfront-cost computation, for every combination of the four
\* waiver flags, each waived fee is exactly 0, each fee not waived is the value
\* of its calculation method on the inputs, and the total upfront cost is the
\* down payment plus the four fees; waiving or unwaiving one fee leaves the
\* other three fees and the down payment unchanged.
C4_UpfrontCosts == C4_FeesAsWaived /\ C4_OtherFeesUnchanged

C4_Witness ==
    /\ UpfrontShown
    /\ Waived("loan_legal_fees")
    /\ ~Waived("spa_legal_fees")
    /\ results.costs[1].loan_legal_fees = R(0)
    /\ RLt(R(0), results.costs[1].spa_legal_fees)

\* C5: for every property price, loan amount, integer discount in [0, 100] and
\* waiver combination, the total is labelled 'Total Rebates' exactly when the
\* signed total upfront cost (down payment + fees not waived) is negative, and
\* 'Total Upfront Costs' exactly when it is >= 0.
C5_LabelAgreesWithSign ==
    UpfrontShown =>
        LET c == results.costs[1]
            negative == Num(c.total_upfront_costs) < 0
        IN  /\ c.total_label \in {"Total Rebates", "Total Upfront Costs"}
            /\ c.total_label = "Total Rebates" <=> negative
            /\ c.total_label = "Total Upfront Costs" <=> ~negative

C5_Witness ==
    /\ UpfrontShown
    /\ results.costs[1].total_label = "Total Rebates"
    /\ Num(results.costs[1].total_upfront_costs) < 0
    /\ RLt(R(0), results.costs[1].total_fees)

\* after a rerun: results are shown iff the toggle is on or the button was
\* pressed in it, and check_results is True iff it was pressed with the toggle off
C10_ShownIffGate ==
    /\ results.shown <=> (auto_check \/ clicked)
    /\ session_state.check_results <=> (clicked /\ ~auto_check)

\* the rerun after a press shows nothing unless its own toggle or press does
C10_PressDoesNotCarryOver ==
    (clicked /\ ~auto_check' /\ ~clicked') => ~results'.shown

\* C10: across any sequence of reruns, results are shown in a rerun exactly
\* when the 'Always Check Results' toggle is on in that rerun or the 'Check
\* Results' button was pressed in that same rerun; session_state.check_results
\* is True after a rerun only for a press with the toggle off; so a press in
\* one rerun never shows results in a later rerun.
C10_ResultsGate ==
    [][C10_ShownIffGate /\ C10_ShownIffGate' /\ C10_PressDoesNotCarryOver]_vars

C10_Witness ==
    /\ ~auto_check
    /\ clicked
    /\ session_state.check_results
    /\ results.shown
    /\ results.page = Upfront

=============================================================================
